---- MODULE Spec2Model ----
(***************************************************************************)
(* simple_predicates: boolean expressions over user literals, and their    *)
(* conversion to conjunctive / disjunctive normal form.                    *)
(*                                                                         *)
(* Expr<V> (src/src/expr.rs) is modelled as a record tree, the literal     *)
(* type V as the u32 of src/src/tests.rs, whose Context is a Vec<u32>      *)
(* (modelled by the set of its members).  The four clause containers       *)
(* CnfHashSet / DnfHashSet (src/src/hash.rs) and CnfVec / DnfVec           *)
(* (src/src/vec.rs) run the same work-stack loop; the model runs the Vec   *)
(* and the HashSet container of one target side by side over one queue.    *)
(***************************************************************************)
EXTENDS Integers, Sequences, FiniteSets, TLC

VARIABLES
    pc,      \* position: "idle", "loop", "done", "evaluated", "consumed", "asked", "applied"
    target,  \* "cnf" or "dnf" ("none" before a container is built)
    via,     \* how the container was built: "none", "default", "expr", "iter"
    input,   \* the argument of From: <<e>> for From<Expr>, the items for From<I>
    queue,   \* the work stack of From<Expr> (Vec<Expr>, top = last element)
    vec,     \* the clauses of the CnfVec / DnfVec being built (a sequence)
    hset,    \* the clauses of the CnfHashSet / DnfHashSet being built (a set)
    data,    \* the context handed to eval
    res,     \* the truth values eval returned for the two containers
    op,      \* the Expr method applied by the last call ("none" before any call)
    args,    \* its arguments
    out,     \* its return value
    moved    \* the Vec<Expr> that into_vec returned

vars == <<pc, target, via, input, queue, vec, hset, data, res, op, args, out, moved>>

----------------------------------------------------------------------------
(* Bounds of the model. *)

\* largest expression (number of nodes) handed to From<Expr>
MaxSize == 7
\* largest expression handed to a unary Expr method
MaxOpSize == 7
\* largest expression on either side of a binary Expr method (eq, eq_repr)
MaxPairSize == 3
\* largest term: the a, b, c of Or(Or(a,b),c) / Or(a,Or(b,c)), and the
\* operands of the clauses handed to From<I>
MaxTermSize == 2
\* longest iterable handed to From<I>
MaxIter == 2

\* the literal values expressions are built from
Literals == {1, 2}

----------------------------------------------------------------------------
(* Expr<V>: the four variants. *)

Var(v) == [op |-> "Var", v |-> v]
Not(p) == [op |-> "Not", a |-> p]
Or(a, b) == [op |-> "Or", a |-> a, b |-> b]
And(a, b) == [op |-> "And", a |-> a, b |-> b]

IsVar(e) == e.op = "Var"
IsNot(e) == e.op = "Not"
IsOr(e) == e.op = "Or"
IsAnd(e) == e.op = "And"

RECURSIVE ExprTable(_)
\* <<S_1, ..., S_n>>, S_k the set of every Expr with exactly k nodes over Literals
ExprTable(n) ==
    IF n = 0 THEN <<>>
    ELSE LET t == ExprTable(n - 1)
             binary(i) == LET as == t[i]
                              bs == t[n - 1 - i]
                          IN  UNION {{Or(a, b), And(a, b)} : a \in as, b \in bs}
         IN  Append(t, IF n = 1 THEN {Var(v) : v \in Literals}
                       ELSE {Not(p) : p \in t[n - 1]}
                            \cup UNION {binary(i) : i \in 1..(n - 2)})

ExprsUpTo(n) == LET t == ExprTable(n) IN UNION {t[k] : k \in 1..n}

\* the expression of the tests three_level_cnf_* / three_level_dnf_*
three_level ==
    And(Or(And(Var(1), Var(2)), And(Var(3), Var(4))),
        And(Or(Var(5), Var(6)), Or(Var(7), Var(8))))

\* a Context of the u32 literal: the Vec<u32> of the values that are present
Contexts == SUBSET Literals

----------------------------------------------------------------------------
(* impl PartialEq for Expr<V>: commutative at Or / And. *)

RECURSIVE eq(_, _)

\* the derived, position-wise comparison
eq_noncommutative(x, y) ==
    CASE IsVar(x) /\ IsVar(y) -> x.v = y.v
      [] IsNot(x) /\ IsNot(y) -> eq(x.a, y.a)
      [] IsOr(x) /\ IsOr(y)   -> eq(x.a, y.a) /\ eq(x.b, y.b)
      [] IsAnd(x) /\ IsAnd(y) -> eq(x.a, y.a) /\ eq(x.b, y.b)
      [] OTHER -> FALSE

\* an equality that looks at the root operator only
eq_shallow(x, y) == x.op = y.op

eq(x, y) ==
    CASE IsVar(x) /\ IsVar(y) -> x.v = y.v
      [] IsNot(x) /\ IsNot(y) -> eq(x.a, y.a)
      [] IsOr(x) /\ IsOr(y) ->
            (eq(x.a, y.a) /\ eq(x.b, y.b)) \/ (eq(x.a, y.b) /\ eq(x.b, y.a))
      [] IsAnd(x) /\ IsAnd(y) ->
            (eq(x.a, y.a) /\ eq(x.b, y.b)) \/ (eq(x.a, y.b) /\ eq(x.b, y.a))
      [] OTHER -> FALSE

(* Expr::eq_repr. *)
RECURSIVE eq_repr(_, _)
eq_repr(x, y) ==
    CASE IsVar(x) /\ IsVar(y) -> x.v = y.v
      [] IsNot(x) /\ IsNot(y) -> eq_repr(x.a, y.a)
      [] IsOr(x) /\ IsOr(y)   -> eq_repr(x.a, x.b) /\ eq_repr(y.a, y.b)
      [] IsAnd(x) /\ IsAnd(y) -> eq_repr(x.a, x.b) /\ eq_repr(y.a, y.b)
      [] OTHER -> FALSE

(* impl Eval for u32 (the literal of the tests) and impl Eval for Expr<V>. *)
lit_eval(v, d) == v \in d

\* an evaluation that treats Or as And
RECURSIVE eval_conjunctive(_, _)
eval_conjunctive(e, d) ==
    CASE IsVar(e) -> lit_eval(e.v, d)
      [] IsNot(e) -> ~eval_conjunctive(e.a, d)
      [] IsOr(e)  -> eval_conjunctive(e.a, d) /\ eval_conjunctive(e.b, d)
      [] IsAnd(e) -> eval_conjunctive(e.a, d) /\ eval_conjunctive(e.b, d)

RECURSIVE eval(_, _)
eval(e, d) ==
    CASE IsVar(e) -> lit_eval(e.v, d)
      [] IsNot(e) -> ~eval(e.a, d)
      [] IsOr(e)  -> eval(e.a, d) \/ eval(e.b, d)
      [] IsAnd(e) -> eval(e.a, d) /\ eval(e.b, d)

----------------------------------------------------------------------------
(* Expr::simplify. *)
RECURSIVE simplify(_)
simplify(e) ==
    CASE IsNot(e) ->
            IF IsNot(e.a) THEN simplify(e.a.a) ELSE Not(simplify(e.a))
      [] IsAnd(e) ->
            LET a == simplify(e.a)
                b == simplify(e.b)
            IN  IF eq(a, b) THEN a ELSE And(a, b)
      [] IsOr(e) ->
            LET a == simplify(e.a)
                b == simplify(e.b)
            IN  IF eq(a, b) THEN a ELSE Or(a, b)
      [] OTHER -> e

\* a pushdown that goes on into the operands of the node it rewrote
RECURSIVE pushdown_not_deep(_)
pushdown_not_deep(e) ==
    IF IsNot(e)
    THEN CASE IsVar(e.a) -> Not(Var(e.a.v))
           [] IsNot(e.a) -> pushdown_not_deep(e.a.a)
           [] IsOr(e.a)  -> And(pushdown_not_deep(Not(e.a.a)),
                                pushdown_not_deep(Not(e.a.b)))
           [] IsAnd(e.a) -> Or(pushdown_not_deep(Not(e.a.a)),
                               pushdown_not_deep(Not(e.a.b)))
    ELSE e

(* Expr::pushdown_not. *)
RECURSIVE pushdown_not(_)
pushdown_not(e) ==
    IF IsNot(e)
    THEN CASE IsVar(e.a) -> Not(Var(e.a.v))
           [] IsNot(e.a) -> pushdown_not(e.a.a)
           [] IsOr(e.a)  -> And(Not(e.a.a), Not(e.a.b))
           [] IsAnd(e.a) -> Or(Not(e.a.a), Not(e.a.b))
    ELSE e

(* Expr::distribute_and: the or-pattern (p, Or(q, r)) | (Or(q, r), p) tries *)
(* its alternatives left to right, so the second operand is tested first.  *)

\* the first operand tested first
distribute_and_first(e) ==
    IF IsAnd(e)
    THEN CASE IsOr(e.a) -> Or(And(e.b, e.a.a), And(e.b, e.a.b))
           [] IsOr(e.b) -> Or(And(e.a, e.b.a), And(e.a, e.b.b))
           [] OTHER     -> And(e.a, e.b)
    ELSE e

\* the distributed term put second in the two output branches
distribute_and_flipped(e) ==
    IF IsAnd(e)
    THEN CASE IsOr(e.b) -> Or(And(e.b.a, e.a), And(e.b.b, e.a))
           [] IsOr(e.a) -> Or(And(e.a.a, e.b), And(e.a.b, e.b))
           [] OTHER     -> And(e.a, e.b)
    ELSE e

distribute_and(e) ==
    IF IsAnd(e)
    THEN CASE IsOr(e.b) -> Or(And(e.a, e.b.a), And(e.a, e.b.b))
           [] IsOr(e.a) -> Or(And(e.b, e.a.a), And(e.b, e.a.b))
           [] OTHER     -> And(e.a, e.b)
    ELSE e

(* Expr::distribute_or. *)

\* the first operand tested first
distribute_or_first(e) ==
    IF IsOr(e)
    THEN CASE IsAnd(e.a) -> And(Or(e.b, e.a.a), Or(e.b, e.a.b))
           [] IsAnd(e.b) -> And(Or(e.a, e.b.a), Or(e.a, e.b.b))
           [] OTHER      -> Or(e.a, e.b)
    ELSE e

\* the distributed term p not duplicated into the second branch
distribute_or_lossy(e) ==
    IF IsOr(e)
    THEN CASE IsAnd(e.b) -> And(Or(e.a, e.b.a), e.b.b)
           [] IsAnd(e.a) -> And(Or(e.b, e.a.a), e.a.b)
           [] OTHER      -> Or(e.a, e.b)
    ELSE e

distribute_or(e) ==
    IF IsOr(e)
    THEN CASE IsAnd(e.b) -> And(Or(e.a, e.b.a), Or(e.a, e.b.b))
           [] IsAnd(e.a) -> And(Or(e.b, e.a.a), Or(e.b, e.a.b))
           [] OTHER      -> Or(e.a, e.b)
    ELSE e

----------------------------------------------------------------------------
(* The clause containers. *)

\* an insert that keeps only the element inserted last
hash_insert_replace(s, x) == {{x}}

(* HashSet<Expr<V>>::insert.  Expr derives Hash (position-wise) but         *)
(* implements PartialEq by hand (commutative), so two members can be ==     *)
(* and hash differently.  A value already present is found by its own hash; *)
(* a different but == member is found only if the probe meets it, which     *)
(* depends on the hasher's random keys: both outcomes are possible.         *)

hash_insert(s, x) ==
    IF x \in s THEN {s}
    ELSE IF \E y \in s : eq(x, y) THEN {s, s \cup {x}}
    ELSE {s \cup {x}}

(* iter.into_iter().collect() into a HashSet: the items inserted in order;  *)
(* the set of the sets the build can end with.                              *)
RECURSIVE hash_collect_from(_, _, _)
hash_collect_from(ss, items, i) ==
    IF i > Len(items) THEN ss
    ELSE hash_collect_from(UNION {hash_insert(s, items[i]) : s \in ss}, items, i + 1)

hash_collect(items) == hash_collect_from({{}}, items, 1)

\* a push that puts the clause in front of the ones already collected
vec_push_front(v, x) == <<x>> \o v

\* a push that drops the clause
vec_push_dropped(v, x) == v

(* Vec<Expr<V>>::push. *)
vec_push(v, x) == Append(v, x)

(* iter.into_iter().collect() into a Vec: the items pushed in order. *)
RECURSIVE vec_collect_from(_, _, _)
vec_collect_from(v, items, i) ==
    IF i > Len(items) THEN v
    ELSE vec_collect_from(vec_push(v, items[i]), items, i + 1)

\* a collect that leaves out an item equal to one already collected
RECURSIVE vec_collect_dedup_from(_, _, _)
vec_collect_dedup_from(v, items, i) ==
    IF i > Len(items) THEN v
    ELSE IF \E j \in 1..Len(v) : eq(v[j], items[i])
         THEN vec_collect_dedup_from(v, items, i + 1)
         ELSE vec_collect_dedup_from(vec_push(v, items[i]), items, i + 1)

vec_collect_dedup(items) == vec_collect_dedup_from(<<>>, items, 1)

vec_collect(items) == vec_collect_from(<<>>, items, 1)

(* CnfVec::is_empty / DnfVec::is_empty: Vec::is_empty of the clauses. *)
vec_is_empty(v) == Len(v) = 0

(* CnfHashSet::is_empty / DnfHashSet::is_empty: HashSet::is_empty. *)
hash_is_empty(s) == Cardinality(s) = 0

(* CnfVec::into_vec / DnfVec::into_vec and From<CnfVec> for Vec: self.0,    *)
(* the clauses moved out of the container in their stored order.            *)
into_vec(v) == [i \in 1..Len(v) |-> v[i]]

(* impl Eval for CnfVec / DnfVec: iter().all / iter().any, left to right,   *)
(* stopping at the first clause that decides the result.                    *)
RECURSIVE vec_all(_, _, _)
vec_all(v, d, i) ==
    IF i > Len(v) THEN TRUE
    ELSE IF ~eval(v[i], d) THEN FALSE
    ELSE vec_all(v, d, i + 1)

RECURSIVE vec_any(_, _, _)
vec_any(v, d, i) ==
    IF i > Len(v) THEN FALSE
    ELSE IF eval(v[i], d) THEN TRUE
    ELSE vec_any(v, d, i + 1)

\* all and any exchanged
vec_eval_swapped(t, v, d) == IF t = "cnf" THEN vec_any(v, d, 1) ELSE vec_all(v, d, 1)

vec_eval(t, v, d) == IF t = "cnf" THEN vec_all(v, d, 1) ELSE vec_any(v, d, 1)

(* impl Eval for CnfHashSet / DnfHashSet: iter().all / iter().any over the  *)
(* members, in the set's own order (the result does not depend on it).      *)
hash_eval(t, s, d) ==
    IF t = "cnf" THEN \A c \in s : eval(c, d) ELSE \E c \in s : eval(c, d)

----------------------------------------------------------------------------
(* The state machine of the containers' construction and evaluation. *)

Targets == {"cnf", "dnf"}

\* the expressions handed to From<Expr>
Inputs == ExprsUpTo(MaxSize) \cup {three_level}

\* the iterables handed to From<I>: the short sequences of terms, and the
\* pairs of a binary clause and its mirror image
Terms == ExprsUpTo(MaxTermSize)
Iterables ==
    UNION {[1..n -> Terms] : n \in 0..MaxIter}
    \cup {<<Or(a, b), Or(b, a)>> : a \in Terms, b \in Terms}
    \cup {<<And(a, b), And(b, a)>> : a \in Terms, b \in Terms}

NoRes == [vec |-> FALSE, hset |-> FALSE]

Init ==
    /\ pc = "idle"
    /\ target = "none"
    /\ via = "none"
    /\ input = <<>>
    /\ queue = <<>>
    /\ vec = <<>>
    /\ hset = {}
    /\ data = {}
    /\ res = NoRes
    /\ op = "none"
    /\ args = <<>>
    /\ out = FALSE
    /\ moved = <<>>

(* Default::default(): the empty container. *)
Default ==
    /\ pc = "idle"
    /\ \E t \in Targets :
          /\ pc' = "done"
          /\ target' = t
          /\ via' = "default"
          /\ vec' = <<>>
          /\ hset' = {}
    /\ UNCHANGED <<input, queue, data, res, op, args, out, moved>>

(* From<I>: the items collected as they are. *)
FromIter ==
    /\ pc = "idle"
    /\ \E t \in Targets, items \in Iterables :
          /\ pc' = "done"
          /\ target' = t
          /\ via' = "iter"
          /\ input' = items
          /\ vec' = vec_collect(items)
          /\ hset' \in hash_collect(items)
    /\ UNCHANGED <<queue, data, res, op, args, out, moved>>

(* From<Expr>, up to the loop: queue.push(expr.simplify()). *)
FromExpr ==
    /\ pc = "idle"
    /\ \E t \in Targets, e \in Inputs :
          /\ pc' = "loop"
          /\ target' = t
          /\ via' = "expr"
          /\ input' = <<e>>
          /\ queue' = <<simplify(e)>>
          /\ vec' = <<>>
          /\ hset' = {}
    /\ UNCHANGED <<data, res, op, args, out, moved>>

\* a rewrite that leaves out the pushdown of a negated root
rewrite_no_pushdown(t, e) ==
    IF t = "cnf" THEN distribute_or(e) ELSE distribute_and(e)

\* the rewrite From<Expr> applies to a popped expression, and the operator it splits at
rewrite(t, e) ==
    IF t = "cnf" THEN distribute_or(pushdown_not(e)) ELSE distribute_and(pushdown_not(e))

splits(t, e) == IF t = "cnf" THEN IsAnd(e) ELSE IsOr(e)

\* a loop body that puts the popped expression back instead of its children
Step_repush ==
    /\ pc = "loop"
    /\ queue # <<>>
    /\ LET top  == queue[Len(queue)]
           rest == SubSeq(queue, 1, Len(queue) - 1)
           r    == rewrite(target, top)
       IN  IF splits(target, r)
           THEN /\ queue' = rest \o <<top>>
                /\ UNCHANGED <<vec, hset>>
           ELSE /\ queue' = rest
                /\ vec' = vec_push(vec, r)
                /\ hset' \in hash_insert(hset, r)
    /\ UNCHANGED <<pc, target, via, input, data, res, op, args, out, moved>>

\* a loop body that pushes the two children of a split in the other order
Step_swapped ==
    /\ pc = "loop"
    /\ queue # <<>>
    /\ LET top  == queue[Len(queue)]
           rest == SubSeq(queue, 1, Len(queue) - 1)
           r    == rewrite(target, top)
       IN  IF splits(target, r)
           THEN /\ queue' = rest \o <<r.b, r.a>>
                /\ UNCHANGED <<vec, hset>>
           ELSE /\ queue' = rest
                /\ vec' = vec_push(vec, r)
                /\ hset' \in hash_insert(hset, r)
    /\ UNCHANGED <<pc, target, via, input, data, res, op, args, out, moved>>

(* From<Expr>, one iteration of `while let Some(expr) = queue.pop()`. *)
Step ==
    /\ pc = "loop"
    /\ queue # <<>>
    /\ LET top  == queue[Len(queue)]
           rest == SubSeq(queue, 1, Len(queue) - 1)
           r    == rewrite(target, top)
       IN  IF splits(target, r)
           THEN /\ queue' = rest \o <<r.a, r.b>>
                /\ UNCHANGED <<vec, hset>>
           ELSE /\ queue' = rest
                /\ vec' = vec_push(vec, r)
                /\ hset' \in hash_insert(hset, r)
    /\ UNCHANGED <<pc, target, via, input, data, res, op, args, out, moved>>

(* From<Expr>, the loop's exit: queue.pop() is None, the container returned. *)
Return ==
    /\ pc = "loop"
    /\ queue = <<>>
    /\ pc' = "done"
    /\ UNCHANGED <<target, via, input, queue, vec, hset, data, res, op, args, out, moved>>

(* Eval::eval of the two containers against a context. *)
Evaluate ==
    /\ pc = "done"
    /\ \E d \in Contexts :
          /\ pc' = "evaluated"
          /\ data' = d
          /\ res' = [vec |-> vec_eval(target, vec, d), hset |-> hash_eval(target, hset, d)]
    /\ UNCHANGED <<target, via, input, queue, vec, hset, op, args, out, moved>>

(* into_vec(self) of the Vec container, which the call consumes. *)
IntoVec ==
    /\ pc = "done"
    /\ pc' = "consumed"
    /\ moved' = into_vec(vec)
    /\ UNCHANGED <<target, via, input, queue, vec, hset, data, res, op, args, out>>

(* is_empty(&self) of the two containers. *)
IsEmpty ==
    /\ pc = "done"
    /\ pc' = "asked"
    /\ res' = [vec |-> vec_is_empty(vec), hset |-> hash_is_empty(hset)]
    /\ UNCHANGED <<target, via, input, queue, vec, hset, data, op, args, out, moved>>

Next ==
    \/ IsEmpty
    \/ IntoVec
    \/ Default
    \/ FromIter
    \/ FromExpr
    \/ Step
    \/ Return
    \/ Evaluate

Spec == Init /\ [][Next]_vars

(* The loop of From<Expr> is straight-line code inside one call: once      *)
(* entered, its body keeps running while the queue is not empty and the    *)
(* function returns when it is.                                            *)
SpecFair == Spec /\ WF_vars(Step) /\ WF_vars(Return)

----------------------------------------------------------------------------
(* The Expr methods on their own: one call from the idle state, its         *)
(* arguments and return value recorded.                                     *)

\* the expressions handed to the unary methods
OpInputs == ExprsUpTo(MaxOpSize)

Operands == ExprsUpTo(MaxPairSize)

\* the pairs handed to eq and eq_repr: all pairs of small expressions, the
\* two orders and the two operators of one node, and the two nestings of
\* three terms
PairInputs ==
    (Operands \X Operands)
    \cup {<<Or(a, b), Or(b, a)>> : a \in Operands, b \in Operands}
    \cup {<<And(a, b), And(b, a)>> : a \in Operands, b \in Operands}
    \cup {<<Or(a, b), And(a, b)>> : a \in Operands, b \in Operands}
    \cup UNION {{<<Or(Or(a, b), c), Or(a, Or(b, c))>> : a \in Terms, b \in Terms} :
                   c \in Terms}
    \cup UNION {{<<And(And(a, b), c), And(a, And(b, c))>> : a \in Terms, b \in Terms} :
                   c \in Terms}

\* a call of a method: the state after it returned
Called(name, actuals, value) ==
    /\ pc' = "applied"
    /\ op' = name
    /\ args' = actuals
    /\ out' = value
    /\ UNCHANGED <<target, via, input, queue, vec, hset, data, res, moved>>

ApplySimplify ==
    /\ pc = "idle"
    /\ \E e \in OpInputs : Called("simplify", <<e>>, simplify(e))

ApplyPushdownNot ==
    /\ pc = "idle"
    /\ \E e \in OpInputs : Called("pushdown_not", <<e>>, pushdown_not(e))

ApplyDistributeAnd ==
    /\ pc = "idle"
    /\ \E e \in OpInputs : Called("distribute_and", <<e>>, distribute_and(e))

ApplyDistributeOr ==
    /\ pc = "idle"
    /\ \E e \in OpInputs : Called("distribute_or", <<e>>, distribute_or(e))

ApplyEq ==
    /\ pc = "idle"
    /\ \E xy \in PairInputs : Called("eq", xy, eq(xy[1], xy[2]))

ApplyEqRepr ==
    /\ pc = "idle"
    /\ \E xy \in PairInputs : Called("eq_repr", xy, eq_repr(xy[1], xy[2]))

(* Eval::eval of an expression against a context. *)
ApplyEval ==
    /\ pc = "idle"
    /\ \E e \in OpInputs, d \in Contexts : Called("eval", <<e, d>>, eval(e, d))

NextOps ==
    \/ ApplyEval
    \/ ApplySimplify
    \/ ApplyPushdownNot
    \/ ApplyDistributeAnd
    \/ ApplyDistributeOr
    \/ ApplyEq
    \/ ApplyEqRepr

SpecOps == Init /\ [][NextOps]_vars

----------------------------------------------------------------------------
(* Properties. *)

\* the expression a finished From<Expr> was given
Built == pc \in {"done", "evaluated"} /\ via = "expr"

\* C1: a container extracted from an expression e evaluates, for every
\* context d, to the truth value e itself evaluates to: the CNF and the DNF,
\* the Vec and the HashSet container alike.
C1_EvalPreserved ==
    (pc = "evaluated" /\ via = "expr") =>
        /\ res.vec = eval(input[1], data)
        /\ res.hset = eval(input[1], data)

\* a CNF of several clauses, obtained by distributing an Or at the root, that
\* evaluates true like its expression
C1_Witness ==
    /\ pc = "evaluated" /\ via = "expr" /\ target = "cnf"
    /\ IsOr(input[1]) /\ Len(vec) >= 2
    /\ data # {} /\ res.vec /\ res.hset /\ eval(input[1], data)

\* C2: a CNF value evaluates true iff every clause evaluates true and a DNF
\* value iff at least one clause does; so the empty CNF is true and the
\* empty DNF false in every context.
C2_AllAny ==
    pc = "evaluated" =>
        /\ target = "cnf" =>
              /\ res.vec = (\A i \in 1..Len(vec) : eval(vec[i], data))
              /\ res.hset = ({c \in hset : ~eval(c, data)} = {})
        /\ target = "dnf" =>
              /\ res.vec = (\E i \in 1..Len(vec) : eval(vec[i], data))
              /\ res.hset = ({c \in hset : eval(c, data)} # {})
        /\ (vec = <<>> /\ hset = {}) =>
              /\ res.vec = (target = "cnf")
              /\ res.hset = (target = "cnf")

\* the default (empty) CNF evaluated true
C2_Witness ==
    /\ pc = "evaluated" /\ via = "default" /\ target = "cnf"
    /\ vec = <<>> /\ hset = {} /\ res.vec /\ res.hset

\* C3: simplify is idempotent: simplify(simplify(e)) == simplify(e).
C3_SimplifyIdempotent ==
    (pc = "applied" /\ op = "simplify") => eq(simplify(out), out)

RECURSIVE HasOp(_, _)
\* the operator o occurs somewhere in e
HasOp(e, o) ==
    \/ e.op = o
    \/ IsNot(e) /\ HasOp(e.a, o)
    \/ (IsOr(e) \/ IsAnd(e)) /\ (HasOp(e.a, o) \/ HasOp(e.b, o))

RECURSIVE NotsOnVars(_)
\* every Not in e is applied to a literal
NotsOnVars(e) ==
    CASE IsVar(e) -> TRUE
      [] IsNot(e) -> IsVar(e.a)
      [] OTHER    -> NotsOnVars(e.a) /\ NotsOnVars(e.b)

\* a flat clause of the target: no occurrence of the operator the target
\* splits at, every Not on a literal
Flat(t, c) == ~HasOp(c, IF t = "cnf" THEN "And" ELSE "Or") /\ NotsOnVars(c)

\* C4: after extraction every clause is fully flattened: no And inside a CNF
\* clause, no Or inside a DNF clause, every Not applied to a literal.
C4_Flattened ==
    Built =>
        /\ \A i \in 1..Len(vec) : Flat(target, vec[i])
        /\ \A c \in hset : Flat(target, c)

\* both children of the distributed node qualify
BothQualify(e) ==
    \/ op = "distribute_and" /\ IsAnd(e) /\ IsOr(e.a) /\ IsOr(e.b)
    \/ op = "distribute_or" /\ IsOr(e) /\ IsAnd(e.a) /\ IsAnd(e.b)

\* C5 as stated: when both children qualify the first operand a is split
\* into (q, r) and the second operand b is the distributed term p.
C5_FirstOperandSplit ==
    (pc = "applied" /\ BothQualify(args[1])) =>
        LET e == args[1]
        IN  /\ op = "distribute_and" => out = Or(And(e.b, e.a.a), And(e.b, e.a.b))
            /\ op = "distribute_or" => out = And(Or(e.b, e.a.a), Or(e.b, e.a.b))

\* C5 as amended: when both children qualify the second operand b is split
\* into (q, r) and the first operand a is the distributed term p.
C5_SecondOperandSplit ==
    (pc = "applied" /\ BothQualify(args[1])) =>
        LET e == args[1]
        IN  /\ op = "distribute_and" => out = Or(And(e.a, e.b.a), And(e.a, e.b.b))
            /\ op = "distribute_or" => out = And(Or(e.a, e.b.a), Or(e.a, e.b.b))

\* distribute_and on And(a, b) with two different Or children
C5_Witness ==
    /\ pc = "applied" /\ op = "distribute_and" /\ BothQualify(args[1])
    /\ ~eq(args[1].a, args[1].b)
    /\ out = Or(And(args[1].a, args[1].b.a), And(args[1].a, args[1].b.b))

\* C6: eq_repr(x, y) holds exactly when x and y have the same operator at
\* every node and equal variables at every leaf, children compared
\* position-wise; so e.eq_repr(e) always holds.
C6_EqReprPositionwise ==
    (pc = "applied" /\ op = "eq_repr") => (out <=> (args[1] = args[2]))

\* C7: a CnfHashSet / DnfHashSet never holds two members that compare ==.
C7_NoEqualMembers ==
    pc \in {"done", "evaluated"} =>
        \A x \in hset, y \in hset : x # y => ~eq(x, y)

\* the second argument is the first with its two children exchanged
Commuted(x, y) ==
    /\ (IsOr(x) \/ IsAnd(x))
    /\ y = [op |-> x.op, a |-> x.b, b |-> x.a]

\* the same children under the other binary operator
OtherOperator(x, y) ==
    /\ (IsOr(x) \/ IsAnd(x)) /\ (IsOr(y) \/ IsAnd(y))
    /\ x.op # y.op /\ x.a = y.a /\ x.b = y.b

\* C8: Or(a,b) == Or(b,a) and And(a,b) == And(b,a), and Or(a,b) != And(a,b).
C8_Commutative ==
    (pc = "applied" /\ op = "eq") =>
        /\ Commuted(args[1], args[2]) => out
        /\ OtherOperator(args[1], args[2]) => ~out

\* an Or whose children differ, one of them compound, equal to its mirror image
C8_Witness ==
    /\ pc = "applied" /\ op = "eq" /\ Commuted(args[1], args[2])
    /\ IsOr(args[1]) /\ IsAnd(args[1].a) /\ ~eq(args[1].a, args[1].b)
    /\ out

\* x = Or(Or(a,b),c) and y = Or(a,Or(b,c)), or the same with And
Reassociated(x, y) ==
    /\ (IsOr(x) \/ IsAnd(x))
    /\ y.op = x.op /\ x.a.op = x.op /\ y.b.op = x.op
    /\ y.a = x.a.a /\ y.b.a = x.a.b /\ y.b.b = x.b

\* C9 as stated: Or(Or(a,b),c) != Or(a,Or(b,c)) for all a, b, c (and
\* likewise for And).
C9_NeverAssociative ==
    (pc = "applied" /\ op = "eq" /\ Reassociated(args[1], args[2])) => ~out

\* C9 as amended: Or(Or(a,b),c) != Or(a,Or(b,c)) exactly when a != c; with
\* a == c the two compare equal, by commutativity (likewise for And).
C9_AssociativeOnlyWhenOuterEqual ==
    (pc = "applied" /\ op = "eq" /\ Reassociated(args[1], args[2])) =>
        (out <=> eq(args[1].a.a, args[1].b))

\* two nestings of three terms with a != c, found unequal
C9_Witness ==
    /\ pc = "applied" /\ op = "eq" /\ Reassociated(args[1], args[2])
    /\ ~eq(args[1].a.a, args[1].b) /\ IsNot(args[1].a.b)
    /\ ~out

\* the six clauses of the test three_level_cnf_vec, in its order
three_level_cnf ==
    << Or(Var(7), Var(8)), Or(Var(5), Var(6)),
       Or(Var(4), Var(2)), Or(Var(4), Var(1)),
       Or(Var(3), Var(2)), Or(Var(3), Var(1)) >>

\* C10: CNF extraction of the three-level expression yields exactly the six
\* clauses Or(7,8), Or(5,6), Or(4,2), Or(4,1), Or(3,2), Or(3,1): that set
\* in the CnfHashSet, that sequence in the CnfVec.
C10_ThreeLevelCnf ==
    (Built /\ target = "cnf" /\ input = <<three_level>>) =>
        /\ vec = three_level_cnf
        /\ hset = {three_level_cnf[i] : i \in 1..6}

\* the extraction of the three-level expression finished with six clauses
C10_Witness ==
    /\ pc = "done" /\ via = "expr" /\ target = "cnf" /\ input = <<three_level>>
    /\ Len(vec) = 6 /\ Cardinality(hset) = 6


----------------------------------------------------------------------------
(* tests::three_level_dnf_hash / three_level_dnf_vec: the expected clauses. *)
three_level_dnf ==
    << And(And(Or(Var(5), Var(6)), Or(Var(7), Var(8))), And(Var(3), Var(4))),
       And(And(Or(Var(5), Var(6)), Or(Var(7), Var(8))), And(Var(1), Var(2))) >>

\* C11: DNF extraction of the three-level expression yields exactly the two
\* clauses And(And(Or(5,6),Or(7,8)), And(3,4)) and
\* And(And(Or(5,6),Or(7,8)), And(1,2)): that set in the DnfHashSet, that
\* sequence in that order in the DnfVec.
C11_ThreeLevelDnf ==
    (Built /\ target = "dnf" /\ input = <<three_level>>) =>
        /\ vec = three_level_dnf
        /\ hset = {three_level_dnf[i] : i \in 1..2}

\* the DNF extraction of the three-level expression finished with two clauses
C11_Witness ==
    /\ pc = "done" /\ via = "expr" /\ target = "dnf" /\ input = <<three_level>>
    /\ Len(vec) = 2 /\ Cardinality(hset) = 2


----------------------------------------------------------------------------
\* the number of nodes of an expression
RECURSIVE size(_)
size(e) ==
    IF IsVar(e) THEN 1
    ELSE IF IsNot(e) THEN 1 + size(e.a)
    ELSE 1 + size(e.a) + size(e.b)

\* a step of the loop that pushed the two children of a split back
Split ==
    /\ pc = "loop" /\ pc' = "loop"
    /\ Len(queue') = Len(queue) + 1

\* C12: the extraction loops terminate. Every expression pushed back onto
\* the queue after a split is strictly smaller than the expression that was
\* popped, and a loop that was entered eventually empties the queue and
\* returns the clause collection.
C12_Terminates ==
    /\ [][Split => /\ size(queue'[Len(queue)]) < size(queue[Len(queue)])
                   /\ size(queue'[Len(queue) + 1]) < size(queue[Len(queue)])]_vars
    /\ (pc = "loop") ~> (pc = "done" /\ queue = <<>>)

\* an extraction that split at least twice has returned
C12_Witness ==
    /\ pc = "done" /\ via = "expr" /\ queue = <<>>
    /\ Len(vec) >= 3


----------------------------------------------------------------------------
\* C13: a CnfVec or DnfVec built from an iterable is not normalized and keeps
\* order and duplicates: into_vec() of it is exactly the input sequence,
\* every item unchanged, even an item that is not clause-shaped.
C13_IterableKept ==
    (pc = "consumed" /\ via = "iter") => moved = input

\* a CNF built from two equal And items was turned back into a vector
C13_Witness ==
    /\ pc = "consumed" /\ via = "iter" /\ target = "cnf"
    /\ Len(input) = 2 /\ input[1] = input[2] /\ IsAnd(input[1])
    /\ Len(moved) = 2


----------------------------------------------------------------------------
\* the contexts in which an expression is true, by the boolean algebra of
\* sets: complement for Not, union for Or, intersection for And
RECURSIVE Models(_)
Models(e) ==
    IF IsVar(e) THEN {d \in Contexts : lit_eval(e.v, d)}
    ELSE IF IsNot(e) THEN Contexts \ Models(e.a)
    ELSE IF IsOr(e) THEN Models(e.a) \cup Models(e.b)
    ELSE Models(e.a) \cap Models(e.b)

\* C14: evaluation is the standard boolean semantics over the literals' own
\* evaluation: a Var is its literal's value, Not inverts its child, Or is true
\* iff at least one child is, And iff both are; so a doubly negated
\* expression evaluates as the expression itself.
C14_BooleanSemantics ==
    (pc = "applied" /\ op = "eval") =>
        LET e == args[1]
            d == args[2]
        IN  /\ out = (d \in Models(e))
            /\ IsVar(e) => out = lit_eval(e.v, d)
            /\ IsNot(e) => out = ~(d \in Models(e.a))
            /\ IsOr(e)  => out = (d \in Models(e.a) \/ d \in Models(e.b))
            /\ IsAnd(e) => out = (d \in Models(e.a) /\ d \in Models(e.b))
            /\ (IsNot(e) /\ IsNot(e.a)) => out = eval(e.a.a, d)

\* a doubly negated disjunction was evaluated to true with one child false
C14_Witness ==
    /\ pc = "applied" /\ op = "eval"
    /\ IsNot(args[1]) /\ IsNot(args[1].a) /\ IsOr(args[1].a.a)
    /\ out = TRUE
    /\ ~eval(args[1].a.a.a, args[2])


----------------------------------------------------------------------------
\* whether an expression holds a Not node whose operand is a Not node
RECURSIVE HasDoubleNot(_)
HasDoubleNot(e) ==
    IF IsVar(e) THEN FALSE
    ELSE IF IsNot(e) THEN IsNot(e.a) \/ HasDoubleNot(e.a)
    ELSE HasDoubleNot(e.a) \/ HasDoubleNot(e.b)

\* C15: simplify removes double negations: the result of simplify(e) holds
\* no Not node whose operand is itself a Not node.
C15_NoDoubleNot ==
    (pc = "applied" /\ op = "simplify") => ~HasDoubleNot(out)


----------------------------------------------------------------------------
\* the clauses derived from an expression, in the order the claim states:
\* when the rewritten expression splits into (a, b), all the clauses of b,
\* then all the clauses of a
RECURSIVE Clauses(_, _)
Clauses(t, e) ==
    LET r == rewrite(t, e)
    IN  IF splits(t, r) THEN Clauses(t, r.b) \o Clauses(t, r.a) ELSE <<r>>

\* the clauses still to come from the queue entries 1..n, the last entry first
RECURSIVE Pending(_, _, _)
Pending(t, q, n) ==
    IF n = 0 THEN <<>> ELSE Clauses(t, q[n]) \o Pending(t, q, n - 1)

\* C16: in the order-preserving extraction the clauses appear in depth-first
\* pop order with the second child first: whenever a popped expression splits
\* into two children (a, b), every clause derived from b is appended before
\* any clause derived from a. At every point of the loop the clauses
\* collected so far, followed by those of the queue from its top down, are
\* the clauses of the simplified input in that order.
C16_SecondChildFirst ==
    (pc \in {"loop", "done"} /\ via = "expr") =>
        vec \o Pending(target, queue, Len(queue))
            = Clauses(target, simplify(input[1]))

\* a DNF extraction that split twice returned three clauses, not all equal
C16_Witness ==
    /\ pc = "done" /\ via = "expr" /\ target = "dnf"
    /\ Len(vec) = 3 /\ vec[1] # vec[2]
    /\ LET r == rewrite(target, simplify(input[1]))
       IN  /\ splits(target, r)
           /\ splits(target, rewrite(target, r.a))


----------------------------------------------------------------------------
\* C17: the two storage policies run the same extraction and differ only in
\* insertion: every clause of the Vec container built from e is equal
\* (Expr ==) to some clause of the HashSet container built from e, and every
\* clause of the HashSet container is equal to some clause of the Vec
\* container, for the CNF and the DNF alike.
C17_SameClauses ==
    Built =>
        /\ \A i \in 1..Len(vec) : \E c \in hset : eq(vec[i], c)
        /\ \A c \in hset : \E i \in 1..Len(vec) : eq(c, vec[i])

\* an extraction returned a HashSet with fewer clauses than the Vec
C17_Witness ==
    /\ pc = "done" /\ via = "expr"
    /\ Len(vec) >= 2
    /\ Cardinality(hset) < Len(vec)


----------------------------------------------------------------------------
\* an expression without the pairs of Not at its root
RECURSIVE StripNotPairs(_)
StripNotPairs(e) ==
    IF IsNot(e) /\ IsNot(e.a) THEN StripNotPairs(e.a.a) ELSE e

\* one De Morgan step at the root, the operands taken as they are
DeMorganRoot(e) ==
    IF IsNot(e) /\ IsOr(e.a) THEN And(Not(e.a.a), Not(e.a.b))
    ELSE IF IsNot(e) /\ IsAnd(e.a) THEN Or(Not(e.a.a), Not(e.a.b))
    ELSE e

\* C18: pushdown_not rewrites only at the root and only one De Morgan level:
\* Not(Var(x)) is returned unchanged, Not(Not(x)) returns pushdown_not(x),
\* Not(Or(a,b)) returns And(Not(a),Not(b)) and Not(And(a,b)) returns
\* Or(Not(a),Not(b)) with a and b left unmodified, and an expression whose
\* root is not Not is returned unchanged.
C18_PushdownNotCases ==
    (pc = "applied" /\ op = "pushdown_not") =>
        LET e == args[1]
        IN  /\ ~IsNot(e) => out = e
            /\ (IsNot(e) /\ IsVar(e.a)) => out = e
            /\ (IsNot(e) /\ IsNot(e.a)) => out = pushdown_not(e.a.a)
            /\ (IsNot(e) /\ IsOr(e.a))  => out = And(Not(e.a.a), Not(e.a.b))
            /\ (IsNot(e) /\ IsAnd(e.a)) => out = Or(Not(e.a.a), Not(e.a.b))
            /\ out = DeMorganRoot(StripNotPairs(e))

\* pushdown_not met a doubly negated Not(Or(a,b)) whose a is itself a Not
C18_Witness ==
    /\ pc = "applied" /\ op = "pushdown_not"
    /\ IsNot(args[1]) /\ IsNot(args[1].a) /\ IsNot(args[1].a.a)
    /\ IsOr(args[1].a.a.a) /\ IsNot(args[1].a.a.a.a)
    /\ IsAnd(out) /\ out.a = Not(args[1].a.a.a.a)


----------------------------------------------------------------------------
\* a binary node of the given operator
Node(o, x, y) == [op |-> o, a |-> x, b |-> y]

\* what the claim states of the distribution of `outer` over `inner`, for the
\* input e and the result r
DistributeCases(outer, inner, e, r) ==
    /\ e.op # outer => r = e
    /\ (e.op = outer /\ e.a.op # inner /\ e.b.op # inner) => r = e
    /\ (e.op = outer /\ e.a.op # inner /\ e.b.op = inner) =>
          r = Node(inner, Node(outer, e.a, e.b.a), Node(outer, e.a, e.b.b))
    /\ (e.op = outer /\ e.a.op = inner /\ e.b.op # inner) =>
          r = Node(inner, Node(outer, e.b, e.a.a), Node(outer, e.b, e.a.b))

\* C19: distribute_and on And(a,b) where exactly one child is Or(q,r) and the
\* other is p returns Or(And(p,q), And(p,r)); where neither child is an Or it
\* returns And(a,b) unchanged; on a root other than And it returns the input
\* unchanged. distribute_or is the exact dual with And and Or swapped.
C19_DistributeCases ==
    /\ (pc = "applied" /\ op = "distribute_and") =>
          DistributeCases("And", "Or", args[1], out)
    /\ (pc = "applied" /\ op = "distribute_or") =>
          DistributeCases("Or", "And", args[1], out)

\* distribute_and met an And whose first child only is an Or
C19_Witness ==
    /\ pc = "applied" /\ op = "distribute_and"
    /\ IsAnd(args[1]) /\ IsOr(args[1].a) /\ ~IsOr(args[1].b)
    /\ args[1].a.a # args[1].b
    /\ IsOr(out) /\ out.a = And(args[1].b, args[1].a.a)


----------------------------------------------------------------------------
\* the top shape of a clause of the target t, whose clauses are joined by
\* `split` and built with `inner`: the root is not `split`, a Not root is
\* over a Var, and an `inner` root has no `split` child
TopShape(split, inner, c) ==
    /\ c.op # split
    /\ IsNot(c) => IsVar(c.a)
    /\ c.op = inner => (c.a.op # split /\ c.b.op # split)

ClauseShape(t, c) ==
    IF t = "cnf" THEN TopShape("And", "Or", c) ELSE TopShape("Or", "And", c)

\* C20: every clause produced by CNF extraction has a root that is never And,
\* a Not root only over a Var, and an Or root whose two direct children are
\* never And; dually every clause produced by DNF extraction has a root that
\* is never Or, a Not root only over a Var, and an And root whose direct
\* children are never Or.
C20_ClauseTopShape ==
    (pc \in {"loop", "done", "evaluated", "consumed"} /\ via = "expr") =>
        /\ \A i \in 1..Len(vec) : ClauseShape(target, vec[i])
        /\ \A c \in hset : ClauseShape(target, c)

\* a CNF extraction returned a clause that came out of a pushdown: an Or of
\* two negations
C20_Witness ==
    /\ pc = "done" /\ via = "expr" /\ target = "cnf"
    /\ \E i \in 1..Len(vec) :
          /\ IsOr(vec[i]) /\ IsNot(vec[i].a) /\ IsNot(vec[i].b)
          /\ vec[i] \in hset
    /\ \E i \in 1..Len(vec) : IsNot(vec[i])
    /\ HasOp(simplify(input[1]), "And")


----------------------------------------------------------------------------
\* C21: a CNF or DNF value extracted from an expression is never empty:
\* is_empty() is false after From<Expr> for the Vec and the HashSet
\* container of either target, because the last expression popped from the
\* queue is always inserted as a clause, so the loop never stands at an empty
\* queue with no clause collected.
C21_NeverEmpty ==
    /\ (pc = "asked" /\ via = "expr") => (~res.vec /\ ~res.hset)
    /\ (pc = "loop" /\ queue = <<>>) => (vec # <<>> /\ hset # {})

\* is_empty was asked of an extraction that split and answered false twice
C21_Witness ==
    /\ pc = "asked" /\ via = "expr"
    /\ res = [vec |-> FALSE, hset |-> FALSE]
    /\ splits(target, rewrite(target, simplify(input[1])))


----------------------------------------------------------------------------
\* the rewrites the extraction is made of
Rewrites == {"simplify", "pushdown_not", "distribute_and", "distribute_or"}

\* C22: every rewrite used by the pipeline preserves meaning on its own: for
\* every expression e and context d, simplify(e), pushdown_not(e),
\* distribute_and(e) and distribute_or(e) evaluate to what e evaluates to,
\* also where simplify collapses two children that are equal only up to
\* commutativity.
C22_RewritesPreserveEval ==
    (pc = "applied" /\ op \in Rewrites) =>
        \A d \in Contexts : eval(out, d) = eval(args[1], d)

\* simplify collapsed two children that differ but are mirror images
C22_Witness ==
    /\ pc = "applied" /\ op = "simplify"
    /\ IsOr(args[1]) /\ IsAnd(args[1].a) /\ IsAnd(args[1].b)
    /\ args[1].a # args[1].b
    /\ out = args[1].a
    /\ \E d \in Contexts : eval(out, d)

====
